---- MODULE Spec2Model ----
(***************************************************************************)
(* Contact-support backend: the FAQ matcher (utils/faq_knowledge_base.py),  *)
(* the response generator (utils/ai_agent.py), the validation gate          *)
(* (utils/validators.py) and the create-message orchestration               *)
(* (controllers/support_message_controller.py, routes/...).                 *)
(*                                                                         *)
(* Texts are TLA+ strings; a character is a string of length 1.            *)
(***************************************************************************)
EXTENDS Integers, Sequences, FiniteSets, TLC

VARIABLES
  asked,            \* find_matching_faq called on its own: its argument
  found,            \* ... and what it returned
  gen_message,      \* generate_ai_response called on its own: user_message
  gen_name,         \* ... customer_name
  gen_call,         \* ... and the state of that call
  GEMINI_API_KEY,   \* the process environment's GEMINI_API_KEY
  db,               \* the support_message table: id -> committed row
  next_id,          \* the table's auto-increment counter
  req,              \* the create requests: request -> its state
  faq_database,     \* the module-level list FAQ_DATABASE of the running process
  calls,            \* the calls made on the FAQ module so far, with their results
  score_case,       \* one candidate scored against one query (keyword loop body)
  greeting,         \* one answer personalized for one customer name
  ai_status,        \* one call of the AI health check (GET /health/ai)
  last_op           \* the last update or delete operation and how it ended

vars == <<asked, found, gen_message, gen_name, gen_call,
          GEMINI_API_KEY, db, next_id, req,
          faq_database, calls, score_case, greeting, ai_status, last_op>>
matchVars == <<asked, found>>
genVars == <<gen_message, gen_name, gen_call>>
dbVars == <<db, next_id, req>>
tableVars == <<faq_database, calls>>
caseVars == <<score_case, greeting, ai_status, last_op>>

(***************************************************************************)
(* Python str primitives used by the code.                                 *)
(***************************************************************************)
CharAt(s, i) == SubSeq(s, i, i)

UpperLetters == "ABCDEFGHIJKLMNOPQRSTUVWXYZ"
LowerLetters == "abcdefghijklmnopqrstuvwxyz"
Digits == "0123456789"

CharsOf(s) == {CharAt(s, i) : i \in 1..Len(s)}

\* str.strip() with no argument removes leading and trailing whitespace
Whitespace == {" ", "\t", "\n", "\r"}

\* characters matched by the regex class \w (ASCII part)
WordChars == CharsOf(UpperLetters) \cup CharsOf(LowerLetters) \cup CharsOf(Digits) \cup {"_"}

SetMin(S) == CHOOSE x \in S : \A y \in S : x <= y
SetMax(S) == CHOOSE x \in S : \A y \in S : x >= y
Maximum(a, b) == IF a >= b THEN a ELSE b

LowerOf == [c \in CharsOf(UpperLetters) |->
             CharAt(LowerLetters, CHOOSE i \in 1..Len(UpperLetters) : CharAt(UpperLetters, i) = c)]
UpperOf == [c \in CharsOf(LowerLetters) |->
             CharAt(UpperLetters, CHOOSE i \in 1..Len(LowerLetters) : CharAt(LowerLetters, i) = c)]

LowerChar(c) == IF c \in DOMAIN LowerOf THEN LowerOf[c] ELSE c
UpperChar(c) == IF c \in DOMAIN UpperOf THEN UpperOf[c] ELSE c

\* str.lower(): every character mapped, the length kept (halving keeps the
\* recursion shallow on long texts)
RECURSIVE lower(_)
lower(s) ==
  IF Len(s) = 0 THEN ""
  ELSE IF Len(s) = 1 THEN LowerChar(s)
  ELSE LET h == Len(s) \div 2
       IN  lower(SubSeq(s, 1, h)) \o lower(SubSeq(s, h + 1, Len(s)))

RECURSIVE upper(_)
upper(s) ==
  IF Len(s) = 0 THEN ""
  ELSE IF Len(s) = 1 THEN UpperChar(s)
  ELSE LET h == Len(s) \div 2
       IN  upper(SubSeq(s, 1, h)) \o upper(SubSeq(s, h + 1, Len(s)))

\* str.strip(chars): the longest prefix and suffix made of chars removed
RECURSIVE first_kept(_, _, _)
first_kept(s, chars, i) ==
  IF i > Len(s) \/ CharAt(s, i) \notin chars THEN i ELSE first_kept(s, chars, i + 1)

RECURSIVE last_kept(_, _, _)
last_kept(s, chars, j) ==
  IF j < 1 \/ CharAt(s, j) \notin chars THEN j ELSE last_kept(s, chars, j - 1)

strip_chars(s, chars) ==
  LET i == first_kept(s, chars, 1)
  IN  IF i > Len(s) THEN "" ELSE SubSeq(s, i, last_kept(s, chars, Len(s)))

strip(s) == strip_chars(s, Whitespace)

\* Python "sub in s"
Contains(sub, s) ==
  \E i \in 1..(Len(s) - Len(sub) + 1) : SubSeq(s, i, i + Len(sub) - 1) = sub

\* set(re.findall(r'\b\w+\b', s)): the maximal runs of word characters
findall_words(s) ==
  LET n == Len(s)
      isw == [i \in 1..n |-> CharAt(s, i) \in WordChars]
      starts == {i \in 1..n : isw[i] /\ (i = 1 \/ ~isw[i - 1])}
      ends == {j \in 1..n : isw[j] /\ (j = n \/ ~isw[j + 1])}
  IN  {SubSeq(s, i, SetMin({j \in ends : j >= i})) : i \in starts}

(***************************************************************************)
(* utils/faq_knowledge_base.py: the table.  Entry 13's answer has an en     *)
(* dash (U+2013) between 3 and 5 in the source; it is written "-" here.     *)
(***************************************************************************)
FAQ_DATABASE ==
  <<
    [question |-> "How can I reset my password?",
     answer   |-> "Go to the login page and click 'Forgot Password'. You'll receive a reset email."],
    [question |-> "What is your refund policy?",
     answer   |-> "We offer full refunds within 7 days of purchase if the product is defective."],
    [question |-> "Do you offer 24/7 customer support?",
     answer   |-> "Yes, our AI and human agents are available 24/7 to assist you."],
    [question |-> "How can I contact customer support?",
     answer   |-> "You can contact our support team via the 'Contact Us' page or by emailing support@example.com."],
    [question |-> "Can I change my registered email address?",
     answer   |-> "Yes, go to your account settings and update your email address, then verify the new one."],
    [question |-> "How do I delete my account?",
     answer   |-> "To delete your account, go to Settings > Privacy > Delete Account. You'll receive a confirmation email."],
    [question |-> "What payment methods do you accept?",
     answer   |-> "We accept credit/debit cards, PayPal, and Stripe payments."],
    [question |-> "Can I upgrade or downgrade my plan?",
     answer   |-> "Yes, you can change your subscription plan anytime from your account settings."],
    [question |-> "Do you have a free trial?",
     answer   |-> "Yes, we offer a 7-day free trial for new users to explore all premium features."],
    [question |-> "Is my data secure with your service?",
     answer   |-> "Absolutely. We use advanced encryption and follow strict data privacy standards to keep your data safe."],
    [question |-> "Can I access the service from my mobile device?",
     answer   |-> "Yes, our platform is fully responsive and works seamlessly on all mobile devices."],
    [question |-> "What should I do if I don't receive the password reset email?",
     answer   |-> "Please check your spam folder first. If you still can't find it, contact support to resend the link."],
    [question |-> "How long does it take to process a refund?",
     answer   |-> "Refunds are usually processed within 3-5 business days after approval."],
    [question |-> "Can multiple users share one account?",
     answer   |-> "For security reasons, sharing accounts is not recommended. Each user should have their own login."],
    [question |-> "How can I update my billing information?",
     answer   |-> "Go to your account's Billing section and click 'Update Payment Details' to make changes."],
    [question |-> "Do you send notifications about system updates?",
     answer   |-> "Yes, we notify all users via email and dashboard alerts whenever new updates are released."],
    [question |-> "Can I pause my subscription temporarily?",
     answer   |-> "Currently, we don't offer subscription pauses, but you can cancel and reactivate anytime."],
    [question |-> "Do you provide training or onboarding support?",
     answer   |-> "Yes, we offer video tutorials and live onboarding sessions for new customers."],
    [question |-> "How can I cancel my subscription?",
     answer   |-> "You can cancel your subscription by going to your account settings and clicking 'Cancel Subscription'."],
    [question |-> "How can I change my subscription plan?",
     answer   |-> "You can change your subscription plan by going to your account settings and clicking 'Change Subscription Plan'."],
    [question |-> "How can I get a refund?",
     answer   |-> "You can request a refund by going to your account settings and clicking 'Request Refund'."],
    [question |-> "How can I change my shipping address?",
     answer   |-> "You can change your shipping address by going to your account settings and clicking 'Change Shipping Address'."],
    [question |-> "How can I change my billing information?",
     answer   |-> "You can change your billing information by going to your account settings and clicking 'Change Billing Information'."],
    [question |-> "Do you offer any warranties on your products?",
     answer   |-> "Yes, we offer a 1-year warranty on all our products."],
    [question |-> "What are your operating hours?",
     answer   |-> "We are open from 9:00 AM to 5:00 PM, Monday to Friday."],
    [question |-> "How long is your warranty period?",
     answer   |-> "Our warranty period is 1 year from the date of purchase."],
    [question |-> "How can I track my order?",
     answer   |-> "You can track your order by going to your account settings and clicking 'Track Order'."],
    [question |-> " What payment methods do you accept? ",
     answer   |-> "We accept credit/debit cards, PayPal, and Stripe payments."],
    [question |-> "How can I report a technical issue or bug?",
     answer   |-> "You can report any issue using the 'Report a Bug' button in your dashboard or contact support directly."],
    [question |-> "Is there a way to export my data?",
     answer   |-> "Yes, you can export your account data from Settings > Data Export anytime."]
  >>

NumFaqs == Len(FAQ_DATABASE)
FaqIds == 1..NumFaqs

stop_words ==
  {"i", "my", "me", "you", "your", "the", "a", "an", "is", "are", "was",
  "were", "do", "does", "did", "can", "could", "what", "how", "where",
  "when", "why", "who", "which", "this", "that", "to", "for", "of", "in",
  "on", "at", "by", "with", "from"}

key_phrases ==
  <<"reset password", "forgot password", "password reset", "refund policy",
  "refund", "24/7", "customer support", "contact support", "change email",
  "update email", "email address", "delete account", "payment method",
  "payment", "upgrade plan", "downgrade plan", "subscription", "free trial",
  "data secure", "data security", "privacy", "mobile device", "mobile",
  "password reset email", "process refund", "refund time", "share account",
  "billing information", "update billing", "system updates",
  "notifications", "pause subscription", "training", "onboarding",
  "technical issue", "bug", "report bug", "export data">>

(***************************************************************************)
(* Scores.  The code computes them in floating point; they are kept here   *)
(* as exact fractions n/d (d > 0).  For the denominators of this table     *)
(* (2, 3, 4, 5, 8) every comparison the code makes agrees with the exact   *)
(* one.                                                                    *)
(***************************************************************************)
Rat(n, d) == [n |-> n, d |-> d]
RatAdd(a, b) == Rat(a.n * b.d + b.n * a.d, a.d * b.d)
RatGT(a, b) == a.n * b.d > b.n * a.d
RatGE(a, b) == a.n * b.d >= b.n * a.d
RatEQ(a, b) == a.n * b.d = b.n * a.d

\* best_score = 0
ZeroScore == Rat(0, 1)
\* score += 0.3
PhraseBoost == Rat(3, 10)
\* best_score >= 0.3
Threshold == Rat(3, 10)

\* find_matching_faq returns an entry of the table (here: its position) or None
None == 0

(***************************************************************************)
(* Per-entry values the loop recomputes on every call; they depend on the  *)
(* table alone.                                                            *)
(***************************************************************************)
faq_question_lower == [i \in FaqIds |-> lower(FAQ_DATABASE[i].question)]
faq_keywords == [i \in FaqIds |-> findall_words(faq_question_lower[i])]
faq_question_normalized == [i \in FaqIds |-> strip(faq_question_lower[i])]
faq_phrases ==
  [i \in FaqIds |->
     {p \in 1..Len(key_phrases) : Contains(key_phrases[p], faq_question_lower[i])}]

\* The module-level list FAQ_DATABASE as loaded: the entries in source order,
\* each named by its position in the source
LoadedTable == [i \in FaqIds |-> i]

\* (mutant) the exact-match loop keeps the last hit instead of returning the first
exact_match_last(table, user_question_lower) ==
  LET hits == {k \in 1..Len(table) :
                 faq_question_normalized[table[k]] = user_question_lower}
  IN  IF hits = {} THEN None ELSE table[SetMax(hits)]

\* for faq in FAQ_DATABASE: if faq["question"].lower().strip() == user_question_lower: return faq
exact_match(table, user_question_lower) ==
  LET hits == {k \in 1..Len(table) :
                 faq_question_normalized[table[k]] = user_question_lower}
  IN  IF hits = {} THEN None ELSE table[SetMin(hits)]

\* (mutant) the stop words are not removed from the intersection
common_keywords_with_stop_words(faq, user_keywords) ==
  faq_keywords[faq] \cap user_keywords

\* common_keywords = faq_keywords.intersection(user_keywords) - stop_words
common_keywords(faq, user_keywords) ==
  (faq_keywords[faq] \cap user_keywords) \ stop_words

\* (mutant) the divisor counts the candidate's stop words too
base_score_all_tokens(faq, user_keywords) ==
  Rat(Cardinality(common_keywords(faq, user_keywords)),
      Maximum(Cardinality(faq_keywords[faq]), 1))

\* (mutant) the divisor is the larger of the candidate's and the query's
\* token counts
base_score_symmetric(faq, user_keywords) ==
  Rat(Cardinality(common_keywords(faq, user_keywords)),
      Maximum(Maximum(Cardinality(faq_keywords[faq] \ stop_words),
                      Cardinality(user_keywords)), 1))

\* score = len(common_keywords) / max(len(faq_keywords - stop_words), 1)
base_score(faq, user_keywords) ==
  Rat(Cardinality(common_keywords(faq, user_keywords)),
      Maximum(Cardinality(faq_keywords[faq] \ stop_words), 1))

\* (mutant) no break: the boost is added for every shared phrase
RECURSIVE phrase_loop_no_break(_, _, _, _)
phrase_loop_no_break(p, faq, user_question_lower, score) ==
  IF p > Len(key_phrases) THEN score
  ELSE IF p \in faq_phrases[faq] /\ Contains(key_phrases[p], user_question_lower)
         THEN phrase_loop_no_break(p + 1, faq, user_question_lower,
                                   RatAdd(score, PhraseBoost))
         ELSE phrase_loop_no_break(p + 1, faq, user_question_lower, score)

\* for phrase in key_phrases:
\*     if phrase in user_question_lower and phrase in faq_question_lower:
\*         score += 0.3; break
RECURSIVE phrase_loop(_, _, _, _)
phrase_loop(p, faq, user_question_lower, score) ==
  IF p > Len(key_phrases) THEN score
  ELSE IF p \in faq_phrases[faq] /\ Contains(key_phrases[p], user_question_lower)
         THEN RatAdd(score, PhraseBoost)
         ELSE phrase_loop(p + 1, faq, user_question_lower, score)

\* the score the loop body gives an entry (0 when the entry is skipped)
final_score(faq, user_question_lower, user_keywords) ==
  IF Cardinality(common_keywords(faq, user_keywords)) > 0
    THEN phrase_loop(1, faq, user_question_lower, base_score(faq, user_keywords))
    ELSE ZeroScore

\* (mutant) if score >= best_score: a later candidate wins a tie
Better_or_equal(score, best_score) == RatGE(score, best_score)

\* (mutant) every candidate replaces the best one, whatever its score
Better_always(score, best_score) == TRUE

\* if score > best_score: best_score = score; best_match = faq
Better(score, best_score) == RatGT(score, best_score)

\* (mutant) the phrase loop runs for every candidate, sharing a token or not
RECURSIVE keyword_loop_boost_alone(_, _, _, _, _, _)
keyword_loop_boost_alone(table, k, user_question_lower, user_keywords, best_match, best_score) ==
  IF k > Len(table) THEN [best_match |-> best_match, best_score |-> best_score]
  ELSE LET score == phrase_loop(1, table[k], user_question_lower,
                                base_score(table[k], user_keywords))
       IN  IF Better(score, best_score)
             THEN keyword_loop_boost_alone(table, k + 1, user_question_lower,
                                           user_keywords, table[k], score)
             ELSE keyword_loop_boost_alone(table, k + 1, user_question_lower,
                                           user_keywords, best_match, best_score)

\* for faq in FAQ_DATABASE: ... (the keyword loop, from position k on)
RECURSIVE keyword_loop(_, _, _, _, _, _)
keyword_loop(table, k, user_question_lower, user_keywords, best_match, best_score) ==
  IF k > Len(table) THEN [best_match |-> best_match, best_score |-> best_score]
  ELSE IF Cardinality(common_keywords(table[k], user_keywords)) > 0
    THEN LET score == final_score(table[k], user_question_lower, user_keywords)
         IN  IF Better(score, best_score)
               THEN keyword_loop(table, k + 1, user_question_lower, user_keywords,
                                 table[k], score)
               ELSE keyword_loop(table, k + 1, user_question_lower, user_keywords,
                                 best_match, best_score)
    ELSE keyword_loop(table, k + 1, user_question_lower, user_keywords,
                      best_match, best_score)

\* if best_match and best_score >= 0.3: return best_match
AboveThreshold(best_score) == RatGE(best_score, Threshold)

\* user_question_lower = user_question.lower().strip()
normalize(user_question) == strip(lower(user_question))

(***************************************************************************)
(* find_matching_faq over a table.  faq is what the function returns;      *)
(* scored tells whether the keyword loop ran, and best_score is the loop's *)
(* final best_score.                                                       *)
(***************************************************************************)
match_in(table, user_question) ==
  LET user_question_lower == normalize(user_question)
      exact == exact_match(table, user_question_lower)
  IN  IF exact # None
        THEN [faq |-> exact, scored |-> FALSE, best_score |-> ZeroScore]
        ELSE LET user_keywords == findall_words(user_question_lower)
                 best == keyword_loop(table, 1, user_question_lower, user_keywords,
                                      None, ZeroScore)
             IN  [faq |-> IF best.best_match # None /\ AboveThreshold(best.best_score)
                            THEN best.best_match ELSE None,
                  scored |-> TRUE,
                  best_score |-> best.best_score]

find_matching_faq(user_question) == match_in(LoadedTable, user_question)

(***************************************************************************)
(* utils/ai_agent.py                                                       *)
(***************************************************************************)
MOCK_RESPONSE == "Thank you for your message. Our support team will reach out shortly."

\* if len(response) > 10
MinResponseLength == 10

\* An Optional[str]: <<>> is None, <<s>> is the string s
Nothing == <<>>
Some(s) == <<s>>
IsSome(o) == o # <<>>
\* Python truthiness of an Optional[str]: neither None nor ""
Truthy(o) == o # <<>> /\ o[1] # ""

\* key = os.getenv("GEMINI_API_KEY"); if key: key = key.strip().strip('"').strip("'")
\* return key if key else None
get_gemini_api_key(env) ==
  IF ~Truthy(env) THEN Nothing
  ELSE LET key == strip_chars(strip_chars(strip(env[1]), {"\""}), {"'"})
       IN  IF key # "" THEN Some(key) ELSE Nothing

\* (mutant) the answer is never re-capitalized
capitalize_never(answer) == answer

\* if answer and answer[0].islower(): answer = answer[0].upper() + answer[1:]
capitalize_first(answer) ==
  IF answer # "" /\ CharAt(answer, 1) \in CharsOf(LowerLetters)
    THEN UpperChar(CharAt(answer, 1)) \o SubSeq(answer, 2, Len(answer))
    ELSE answer

\* if customer_name: ...; answer = f"Hi {customer_name}, {answer}"
personalize(answer, customer_name) ==
  IF Truthy(customer_name)
    THEN "Hi " \o customer_name[1] \o ", " \o capitalize_first(answer)
    ELSE answer

(***************************************************************************)
(* One call of generate_ai_response.  pc is the call's position:           *)
(*   "idle"      not called                                                *)
(*   "awaiting"  suspended in `await Runner.run(...)`                       *)
(*   "returned"  returned `response`                                       *)
(*   "raised"    left by an exception                                      *)
(* matching_faq and result are the local variables of those names (result  *)
(* is what Runner.run did); find_calls, client_ctor, agent_ctor and        *)
(* model_calls count the calls of find_matching_faq, AsyncOpenAI(...),     *)
(* Agent(...) and Runner.run made by this call.                            *)
(***************************************************************************)
\* What `await Runner.run(...)` can do: raise, or return a result whose
\* final_output is missing/None (Nothing) or a text.
Raises == [kind |-> "raise", final_output |-> Nothing]
Result(final_output) == [kind |-> "result", final_output |-> final_output]
NoResult == [kind |-> "none", final_output |-> Nothing]

IdleCall ==
  [pc |-> "idle", response |-> "", matching_faq |-> None, scored |-> FALSE,
   result |-> NoResult,
   find_calls |-> 0, client_ctor |-> 0, agent_ctor |-> 0, model_calls |-> 0]

\* return <text>
Return(call, text) == [call EXCEPT !.pc = "returned", !.response = text]

\* (mutant) the exception is not caught
on_exception_propagates(call) == [call EXCEPT !.pc = "raised"]

\* (mutant) the failed model call is attempted once more
on_exception_retries(call) ==
  IF call.model_calls < 2
    THEN [call EXCEPT !.pc = "awaiting", !.model_calls = @ + 1]
    ELSE Return(call, MOCK_RESPONSE)

\* except Exception as e: ...; return MOCK_RESPONSE
on_exception(call) == Return(call, MOCK_RESPONSE)

\* (mutant) no early return on a FAQ hit: the model is asked all the same
on_faq_hit_calls_model(call, customer_name) ==
  [call EXCEPT !.client_ctor = @ + 1, !.agent_ctor = @ + 1,
               !.model_calls = @ + 1, !.pc = "awaiting"]

\* if matching_faq: answer = matching_faq['answer']; ...; return answer
on_faq_hit(call, customer_name) ==
  Return(call, personalize(FAQ_DATABASE[call.matching_faq].answer, customer_name))

\* lines 143-187: no FAQ matched.  client_ok and agent_ok tell whether the
\* constructors AsyncOpenAI/OpenAIChatCompletionsModel/RunConfig and Agent
\* return (TRUE) or raise (FALSE).
on_faq_miss(call, env, client_ok, agent_ok) ==
  IF ~IsSome(get_gemini_api_key(env))
    THEN Return(call, MOCK_RESPONSE)                       \* _get_client_and_model: no key
  ELSE IF ~client_ok
    THEN Return([call EXCEPT !.client_ctor = @ + 1], MOCK_RESPONSE)
  ELSE IF ~agent_ok
    THEN Return([call EXCEPT !.client_ctor = @ + 1, !.agent_ctor = @ + 1],
                MOCK_RESPONSE)
  ELSE [call EXCEPT !.client_ctor = @ + 1, !.agent_ctor = @ + 1,
                    !.model_calls = @ + 1, !.pc = "awaiting"]

\* generate_ai_response from line 130 to its return or to the await, m being
\* what find_matching_faq(user_message) returned
generate_after_match(m, customer_name, env, client_ok, agent_ok) ==
  LET call == [IdleCall EXCEPT !.matching_faq = m.faq, !.scored = m.scored,
                               !.find_calls = @ + 1]
  IN  IF m.faq # None
        THEN on_faq_hit(call, customer_name)
        ELSE on_faq_miss(call, env, client_ok, agent_ok)

\* generate_ai_response from its first line to its return or to the await
generate_begin(user_message, customer_name, env, client_ok, agent_ok) ==
  generate_after_match(find_matching_faq(user_message), customer_name, env,
                       client_ok, agent_ok)

\* (mutant) len(response) >= 10
valid_response_ge(response) == Len(response) >= MinResponseLength

\* if len(response) > 10
valid_response(response) == Len(response) > MinResponseLength

\* if result and hasattr(result, 'final_output') and result.final_output:
\*     response = str(result.final_output).strip()
\*     if len(response) > 10: return response
\* return MOCK_RESPONSE
extract_response(final_output) ==
  IF Truthy(final_output) /\ valid_response(strip(final_output[1]))
    THEN strip(final_output[1])
    ELSE MOCK_RESPONSE

\* generate_ai_response from the await to its return
generate_resume(call, outcome) ==
  IF outcome.kind = "raise"
    THEN on_exception([call EXCEPT !.result = outcome])
    ELSE Return([call EXCEPT !.result = outcome],
                extract_response(outcome.final_output))

\* Python values whose identity with None the code tests
PyNone == [type |-> "NoneType"]
PyBool(b) == [type |-> "bool", value |-> b]
PyObject(name) == [type |-> name]
\* v is not None
is_not_none(v) == v.type # "NoneType"

\* _get_client_and_model(): the model it returns (lines 29-54): None without
\* a key or when a constructor raises
get_client_and_model(env, client_ok) ==
  IF ~IsSome(get_gemini_api_key(env)) THEN PyNone
  ELSE IF client_ok THEN PyObject("OpenAIChatCompletionsModel")
  ELSE PyNone

\* _get_agent(model): None without a model or when Agent(...) raises
get_agent(model, agent_ok) ==
  IF ~is_not_none(model) THEN PyNone
  ELSE IF agent_ok THEN PyObject("Agent")
  ELSE PyNone

\* AIAgent.__init__:
\*     self.agent = _get_agent(model) if model else None
\*     self.gemini_client = self.agent is not None
AIAgent(env, client_ok, agent_ok) ==
  LET model == get_client_and_model(env, client_ok)
      agent == IF is_not_none(model) THEN get_agent(model, agent_ok) ELSE PyNone
  IN  [agent |-> agent, gemini_client |-> PyBool(is_not_none(agent))]

(***************************************************************************)
(* main.py: GET /health/ai.  No call in the try block raises (the          *)
(* constructors' exceptions are caught in ai_agent.py), so the except      *)
(* branch is not reached.                                                  *)
(***************************************************************************)
ai_health_check(env, client_ok, agent_ok) ==
  LET gemini_key == get_gemini_api_key(env)
      api_key_present == IsSome(gemini_key) /\ Len(gemini_key[1]) > 0
      agent == AIAgent(env, client_ok, agent_ok)
      \* agent.gemini_client is not None
      client_initialized == is_not_none(agent.gemini_client)
  IN  [api_key_present |-> api_key_present,
       client_initialized |-> client_initialized,
       configured |-> client_initialized,
       status |-> IF client_initialized THEN "ready"
                  ELSE IF api_key_present
                    THEN "api_key_found_but_client_not_initialized"
                  ELSE "api_key_not_found"]

(***************************************************************************)
(* utils/validators.py                                                     *)
(***************************************************************************)
\* if len(message) > 10000
MaxMessageLength == 10000

HTTP_201_CREATED == 201
HTTP_400_BAD_REQUEST == 400
HTTP_500_INTERNAL_SERVER_ERROR == 500

Letters == CharsOf(UpperLetters) \cup CharsOf(LowerLetters)
\* [a-zA-Z0-9._%+-]
LocalChars == Letters \cup CharsOf(Digits) \cup {".", "_", "%", "+", "-"}
\* [a-zA-Z0-9.-]
DomainChars == Letters \cup CharsOf(Digits) \cup {".", "-"}

\* re.match(r'^[a-zA-Z0-9._%+-]+@[a-zA-Z0-9.-]+\.[a-zA-Z]{2,}$', email):
\* one "@" at position a after a local part, a last "." at position d after
\* a domain part, then two letters or more; `$` also matches before one
\* final newline
validate_email(email) ==
  LET e == IF email # "" /\ CharAt(email, Len(email)) = "\n"
             THEN SubSeq(email, 1, Len(email) - 1) ELSE email
      n == Len(e)
  IN  \E a \in 2..n : \E d \in (a + 2)..(n - 2) :
        /\ CharAt(e, a) = "@"
        /\ \A k \in 1..(a - 1) : CharAt(e, k) \in LocalChars
        /\ \A k \in (a + 1)..(d - 1) : CharAt(e, k) \in DomainChars
        /\ CharAt(e, d) = "."
        /\ \A k \in (d + 1)..n : CharAt(e, k) \in Letters

\* (mutant) len(message) >= 10000
too_long_ge(message) == Len(message) >= MaxMessageLength

\* if len(message) > 10000
too_long(message) == Len(message) > MaxMessageLength

\* `not s or not s.strip()` for a str s
blank(s) == s = "" \/ strip(s) = ""

\* validate_support_message_data: Nothing when it returns, the detail of the
\* HTTPException (status 400) when it raises
validate_support_message_data(name, email, message) ==
  IF blank(name) THEN Some("Name is required and cannot be empty")
  ELSE IF blank(email) THEN Some("Email is required and cannot be empty")
  ELSE IF ~validate_email(email) THEN Some("Invalid email format")
  ELSE IF blank(message) THEN Some("Message is required and cannot be empty")
  ELSE IF too_long(message)
    THEN Some("Message is too long. Maximum length is 10000 characters")
  ELSE Nothing

(***************************************************************************)
(* models/support_message.py, config/database.py: rows and ORM instances.  *)
(* A row of the table is [name, email, message, ai_response]; ai_response  *)
(* is Nothing (NULL) or Some(text).  An instance is the in-memory          *)
(* SupportMessage of one session: id is None until the INSERT commits;     *)
(* expired tells that its attributes must be reloaded from the table       *)
(* before they can be read (the session expires an instance when it        *)
(* commits and when it rolls back).                                        *)
(***************************************************************************)
Row(name, email, message, ai_response) ==
  [name |-> name, email |-> email, message |-> message, ai_response |-> ai_response]

\* SupportMessage(name=..., email=..., message=...)
NewInstance(data) ==
  [id |-> None, name |-> data.name, email |-> data.email, message |-> data.message,
   ai_response |-> Nothing, expired |-> FALSE]

NoInstance ==
  [id |-> None, name |-> "", email |-> "", message |-> "",
   ai_response |-> Nothing, expired |-> FALSE]

\* session.refresh(instance), or the load an expired instance makes when an
\* attribute is read: the attributes are those of the row
Loaded(table, id) ==
  [id |-> id, name |-> table[id].name, email |-> table[id].email,
   message |-> table[id].message, ai_response |-> table[id].ai_response,
   expired |-> FALSE]

Expired(instance) == [instance EXCEPT !.expired = TRUE]

\* SupportMessageResponse.model_validate(support_message)
ResponseBody(instance) ==
  [id |-> instance.id, name |-> instance.name, email |-> instance.email,
   message |-> instance.message, ai_response |-> instance.ai_response]

(***************************************************************************)
(* One create request (routes/support_message_routes.py,                   *)
(* controllers/support_message_controller.py).  pc is its position:        *)
(*   "new"        not received yet                                         *)
(*   "persisted"  record committed and refreshed (line 56 done)            *)
(*   "awaiting"   suspended in generate_ai_response's model call           *)
(*   "generated"  generate_ai_response has returned (line 69 done)         *)
(*   "done"       answered: status, and detail or body                     *)
(*   "crashed"    the process stopped while the request was in progress    *)
(* validated, first_commit, second_commit, row_id and gen_calls record     *)
(* what has happened: whether validation passed, how each commit ended     *)
(* ("none", "ok", "failed"), the id of the row the request inserted (None  *)
(* when it inserted none) and how often it called generate_ai_response;    *)
(* waiting_at_arrival, the requests that were suspended in the model call  *)
(* when this one was received.                                             *)
(***************************************************************************)
NoData == [name |-> "", email |-> "", message |-> ""]

NewRequest ==
  [pc |-> "new", message_data |-> NoData, support_message |-> NoInstance,
   call |-> IdleCall, gen_calls |-> 0,
   status |-> 0, detail |-> "", body |-> Nothing,
   validated |-> FALSE, first_commit |-> "none", second_commit |-> "none",
   row_id |-> None, waiting_at_arrival |-> {}]

\* the route answers with an error: raise HTTPException(status_code, detail)
Fail(rq, status, detail) ==
  [rq EXCEPT !.pc = "done", !.status = status, !.detail = detail]

\* routes line 46: return SupportMessageResponse.model_validate(support_message)
Respond(rq, instance) ==
  [rq EXCEPT !.pc = "done", !.status = HTTP_201_CREATED,
             !.support_message = instance, !.body = Some(ResponseBody(instance))]

\* routes lines 49-53: except Exception -> 500
on_route_exception(rq) ==
  Fail(rq, HTTP_500_INTERNAL_SERVER_ERROR, "Failed to create support message")

(***************************************************************************)
(* controller lines 40-56: validate, INSERT, commit, refresh.  The result  *)
(* is the request's next state and the table's; commit_ok and refresh_ok   *)
(* tell whether session.commit() and session.refresh() return or raise.    *)
(***************************************************************************)
\* (mutant) a failed first commit is swallowed and the request goes on
on_first_commit_failure_swallowed(rq) ==
  [rq EXCEPT !.pc = "persisted", !.first_commit = "failed"]

\* line 55 raises: nothing is caught in the controller, the route answers 500
on_first_commit_failure(rq) ==
  on_route_exception([rq EXCEPT !.first_commit = "failed"])

\* (mutant) the record is only added to the session: nothing is committed
\* before the response is generated
create_record_uncommitted(rq, data, table, id, commit_ok, refresh_ok) ==
  LET received == [rq EXCEPT !.message_data = data]
      error == validate_support_message_data(data.name, data.email, data.message)
  IN  IF IsSome(error)
        THEN [rq |-> Fail(received, HTTP_400_BAD_REQUEST, error[1]),
              table |-> table, next_id |-> id]
        ELSE [rq |-> [received EXCEPT !.validated = TRUE, !.pc = "persisted",
                                      !.support_message = NewInstance(data)],
              table |-> table, next_id |-> id]

create_record(rq, data, table, id, commit_ok, refresh_ok) ==
  LET received == [rq EXCEPT !.message_data = data]
      error == validate_support_message_data(data.name, data.email, data.message)
      valid == [received EXCEPT !.validated = TRUE,
                                !.support_message = NewInstance(data)]
      inserted == table @@ (id :> Row(data.name, data.email, data.message, Nothing))
      committed == [valid EXCEPT !.first_commit = "ok", !.row_id = id,
                                 !.support_message = Expired([@ EXCEPT !.id = id])]
  IN  IF IsSome(error)
        THEN [rq |-> Fail(received, HTTP_400_BAD_REQUEST, error[1]),
              table |-> table, next_id |-> id]
      ELSE IF ~commit_ok
        THEN [rq |-> on_first_commit_failure(valid), table |-> table, next_id |-> id]
      ELSE IF ~refresh_ok
        THEN [rq |-> on_route_exception(committed), table |-> inserted,
              next_id |-> id + 1]
      ELSE [rq |-> [committed EXCEPT !.pc = "persisted",
                                     !.support_message = Loaded(inserted, id)],
            table |-> inserted, next_id |-> id + 1]

(***************************************************************************)
(* controller lines 65-69: ai_response = await generate_ai_response(       *)
(*   user_message=message_data.message, customer_name=message_data.name,   *)
(*   customer_email=message_data.email)                                    *)
(***************************************************************************)
\* the request's position once the call has run as far as it can
after_call(rq, call) ==
  [rq EXCEPT !.call = call,
             !.pc = IF call.pc = "awaiting" THEN "awaiting" ELSE "generated"]

call_generator(rq, m, env, client_ok, agent_ok) ==
  after_call([rq EXCEPT !.gen_calls = @ + 1],
             generate_after_match(m, Some(rq.message_data.name), env,
                                  client_ok, agent_ok))

resume_generator(rq, outcome) == after_call(rq, generate_resume(rq.call, outcome))

(***************************************************************************)
(* controller lines 74-91 and routes lines 46-53: attach the response,     *)
(* commit, refresh, return the instance, serialize it.  commit tells how   *)
(* session.commit() ends: "ok"; "flush_failed", the UPDATE it flushes      *)
(* raises, the session rolls back and expires the instance; or             *)
(* "commit_failed", the UPDATE is flushed and the COMMIT raises, which     *)
(* leaves the instance as it is in memory, the attribute set in line 74    *)
(* included, and the table as it was.  refresh_ok and reload_ok tell       *)
(* whether the refresh and the load of an expired instance by              *)
(* model_validate return or raise.                                         *)
(***************************************************************************)
CommitOutcomes == {"ok", "flush_failed", "commit_failed"}

\* (mutant) the UPDATE goes to the row inserted last, whoever inserted it
Updated_last_row(table, id, text) ==
  [table EXCEPT ![SetMax(DOMAIN table)].ai_response = Some(text)]

\* UPDATE support_message SET ai_response = ... WHERE id = ...
Updated(table, id, text) == [table EXCEPT ![id].ai_response = Some(text)]

attach_response(rq, table, commit, refresh_ok, reload_ok) ==
  LET id == rq.support_message.id
      \* the UPDATE finds the row and is flushed
      flushed == commit # "flush_failed" /\ rq.call.pc = "returned"
                   /\ id \in DOMAIN table
      written == flushed /\ commit = "ok"
      table2 == IF written THEN Updated(table, id, rq.call.response) ELSE table
      \* lines 82-89: whatever was raised in lines 65-78 is logged and dropped
      instance == IF written /\ refresh_ok
                    THEN Loaded(table2, id)
                    ELSE IF flushed /\ ~written
                      THEN [rq.support_message EXCEPT
                              !.ai_response = Some(rq.call.response)]
                    ELSE IF rq.call.pc = "returned"
                      THEN Expired(rq.support_message)
                      ELSE rq.support_message
      rq2 == [rq EXCEPT !.second_commit =
                IF rq.call.pc # "returned" THEN "none"
                ELSE IF written THEN "ok" ELSE "failed"]
  IN  [rq |-> IF ~instance.expired THEN Respond(rq2, instance)
              ELSE IF reload_ok /\ id \in DOMAIN table2
                THEN Respond(rq2, Loaded(table2, id))
                ELSE on_route_exception([rq2 EXCEPT !.support_message = instance]),
       table |-> table2]

(***************************************************************************)
(* controller lines 143-206: update_support_message and                    *)
(* delete_support_message, each run with a session of its own.             *)
(* update_data is message_data.model_dump(exclude_unset=True): a function  *)
(* from the fields the caller set to their values, Nothing for null.  The  *)
(* result is the outcome (the status of the exception raised, if any) and  *)
(* the table.                                                              *)
(***************************************************************************)
\* the status recorded when the operation returns without raising
NoException == 0
HTTP_404_NOT_FOUND == 404

ValidatedFields == {"name", "email", "message"}

\* (mutant) the stored values are validated, not the merged ones
get_stored(update_data, key, default) == Some(default)

\* update_data.get(key, default)
get(update_data, key, default) ==
  IF key \in DOMAIN update_data THEN update_data[key] ELSE Some(default)

\* a value as the tests `not s or not s.strip()` see it: None is falsy as ""
OrEmpty(o) == IF o = Nothing THEN "" ELSE o[1]

\* lines 170-175: the detail of the HTTPException raised, Nothing when none
validate_update(row, update_data) ==
  IF DOMAIN update_data \cap ValidatedFields = {} THEN Nothing
  ELSE validate_support_message_data(
         OrEmpty(get(update_data, "name", row.name)),
         OrEmpty(get(update_data, "email", row.email)),
         OrEmpty(get(update_data, "message", row.message)))

\* lines 177-178: for key, value in update_data.items(): setattr(...)
setattrs(row, update_data) ==
  [k \in DOMAIN row |->
     IF k \notin DOMAIN update_data THEN row[k]
     ELSE IF k = "ai_response" THEN update_data[k]
     ELSE OrEmpty(update_data[k])]

\* the UPDATE would store NULL in a column declared nullable=False
violates_not_null(update_data) ==
  \E k \in DOMAIN update_data \cap ValidatedFields : update_data[k] = Nothing

update_support_message(table, message_id, update_data, commit_ok) ==
  IF message_id \notin DOMAIN table
    THEN [status |-> HTTP_404_NOT_FOUND, table |-> table]
  ELSE IF IsSome(validate_update(table[message_id], update_data))
    THEN [status |-> HTTP_400_BAD_REQUEST, table |-> table]
  ELSE IF ~commit_ok \/ violates_not_null(update_data)
    THEN [status |-> HTTP_500_INTERNAL_SERVER_ERROR, table |-> table]
  ELSE [status |-> NoException,
        table |-> [table EXCEPT ![message_id] = setattrs(@, update_data)]]

delete_support_message(table, message_id, commit_ok) ==
  IF message_id \notin DOMAIN table
    THEN [status |-> HTTP_404_NOT_FOUND, table |-> table]
  ELSE IF ~commit_ok
    THEN [status |-> HTTP_500_INTERNAL_SERVER_ERROR, table |-> table]
  ELSE [status |-> NoException,
        table |-> [i \in DOMAIN table \ {message_id} |-> table[i]]]

(***************************************************************************)
(* Requests in progress at once.  generate_ai_response suspends at         *)
(* `result = await Runner.run(...)` (ai_agent line 187) and the controller *)
(* at `await generate_ai_response(...)` (lines 65-69): the event loop runs *)
(* the other requests meanwhile.  Between two awaits a request runs alone. *)
(***************************************************************************)
\* (mutant) the model call is waited for without yielding to the event loop
blocked_by_model_call(requests, r) ==
  \E o \in DOMAIN requests \ {r} : requests[o].pc = "awaiting"

\* request r has to wait for another request before it can run on
blocked(requests, r) == FALSE

\* the step request r takes when the event loop runs it next ("none": it
\* cannot run; the completion of its model call is not the event loop's)
next_step(requests, r) ==
  IF blocked(requests, r) THEN "none"
  ELSE IF requests[r].pc = "new" THEN "Submit"
  ELSE IF requests[r].pc = "persisted" THEN "Generate"
  ELSE IF requests[r].pc = "generated" THEN "Attach"
  ELSE "none"

\* the requests suspended in the model call
waiting(requests) == {o \in DOMAIN requests : requests[o].pc = "awaiting"}

\* the process stops: every request in progress is lost with it; what was
\* committed stays in the table
in_progress(rq) == rq.pc \in {"persisted", "awaiting", "generated"}

crash(requests) ==
  [r \in DOMAIN requests |->
     IF in_progress(requests[r]) THEN [requests[r] EXCEPT !.pc = "crashed"]
     ELSE requests[r]]

(***************************************************************************)
(* Inputs.                                                                 *)
(***************************************************************************)
\* s repeated n times
RECURSIVE Rep(_, _)
Rep(s, n) ==
  IF n = 0 THEN ""
  ELSE IF n = 1 THEN s
  ELSE LET h == Rep(s, n \div 2)
       IN  IF n % 2 = 0 THEN h \o h ELSE h \o h \o s

\* Queries of up to MaxWords words
MaxWords == 2

Vocabulary ==
  {"how", "my", "weather", "hello", "password", "reset", "refund", "policy",
   "email", "subscription", "change", "plan"}

RECURSIVE WordQueries(_)
WordQueries(n) ==
  IF n = 0 THEN {}
  ELSE Vocabulary \cup {q \o " " \o w : q \in WordQueries(n - 1), w \in Vocabulary}

\* Every question of the table as written, in upper case, and in lower case
\* with whitespace around it
QuestionQueries ==
  UNION {{FAQ_DATABASE[i].question,
          upper(FAQ_DATABASE[i].question),
          "  " \o lower(FAQ_DATABASE[i].question) \o "\n"} : i \in FaqIds}

ScenarioQueries ==
  {"what happens if I forgot my password", "What's the weather today?", "",
   "   ", "debug", "refunds 24/7", "is there a payment method for mobile",
   "How can I reset my password"}

Queries == WordQueries(MaxWords) \cup QuestionQueries \cup ScenarioQueries

\* Values of the environment variable: unset, or up to MaxKeyLen characters
MaxKeyLen == 2
KeyAlphabet == {" ", "\"", "'", "k"}

RECURSIVE KeyStrings(_)
KeyStrings(n) ==
  IF n = 0 THEN {""}
  ELSE KeyStrings(n - 1) \cup {k \o c : k \in KeyStrings(n - 1), c \in KeyAlphabet}

EnvKeys == {Nothing} \cup {Some(k) : k \in KeyStrings(MaxKeyLen)}

\* Texts the model may produce: up to MaxPad whitespace characters on either
\* side of a body around the length the code tests for
MaxPad == 1
Pads == {Rep(" ", k) : k \in 0..MaxPad} \cup {"\n"}
Bodies ==
  {Rep("x", n) : n \in {0, MinResponseLength - 1, MinResponseLength,
                        MinResponseLength + 1}}
  \cup {"Sorry, I can only help with product FAQs."}
ModelOutputs == {l \o b \o r : l \in Pads, b \in Bodies, r \in Pads}

RunOutcomes == {Raises, Result(Nothing)} \cup {Result(Some(t)) : t \in ModelOutputs}

GenMessages ==
  {"How can I reset my password?", "what happens if I forgot my password",
   "What's the weather today?", "email"}
GenNames == {Nothing, Some(""), Some("Sam")}

\* Create requests: the two that may be in progress at once, and the bodies
\* they may carry (one field varied at a time around a valid body)
Requests == {"r1", "r2"}

ValidName == "Sam"
ValidEmail == "sam@example.com"
ValidMessage == "How can I reset my password?"

Names == {"", "  ", ValidName, "Ann"}
Emails == {"", "  ", "sam.example.com", "sam@example", "sam@example.c", ValidEmail}
Messages ==
  {"", " \n", Rep("x", MaxMessageLength + 1), Rep("x", MaxMessageLength),
   ValidMessage, "what happens if I forgot my password",
   "What's the weather today?"}

Payloads ==
  {[name |-> n, email |-> ValidEmail, message |-> ValidMessage] : n \in Names}
  \cup {[name |-> ValidName, email |-> e, message |-> ValidMessage] : e \in Emails}
  \cup {[name |-> ValidName, email |-> ValidEmail, message |-> m] : m \in Messages}
  \cup {[name |-> "", email |-> "", message |-> ""]}

\* what the model call may do while a create request waits for it
CreateOutcomes ==
  {Raises, Result(Nothing), Result(Some(" ok ")),
   Result(Some("Sorry, I can only help with product FAQs.\n"))}

CreateEnvKeys == {Nothing, Some("k")}

\* Answers to personalize: the stored ones, the same with a lower-case first
\* letter, and a few short ones
LowerFirst(a) == IF a = "" THEN a ELSE LowerChar(CharAt(a, 1)) \o SubSeq(a, 2, Len(a))
StoredAnswers == {FAQ_DATABASE[i].answer : i \in FaqIds}
Answers ==
  StoredAnswers \cup {LowerFirst(a) : a \in StoredAnswers}
    \cup {"", "y", "yes.", "7 days.", "'Forgot Password' resets it."}
CustomerNames == {Nothing, Some(""), Some("Sam"), Some("ann")}

(***************************************************************************)
(* utils/faq_knowledge_base.py: the functions on the list of the running   *)
(* process.  An element of the list is a dict; ref is the dict's identity  *)
(* (its position in the literal), and the tokens of its question are those *)
(* computed from the literal.                                              *)
(***************************************************************************)
\* the list as the module's import leaves it: the entries of the literal, in
\* its order, each with the reference (position in the literal) of its dict
LoadedEntries ==
  [i \in FaqIds |-> [ref |-> i, question |-> FAQ_DATABASE[i].question,
                     answer |-> FAQ_DATABASE[i].answer]]

\* the references held by the list, in its order
Refs(table) == [k \in 1..Len(table) |-> table[k].ref]

\* (mutant) the entries are visited in the literal's order, whatever the list's
find_in_literal_order(table, user_question) == match_in(LoadedTable, user_question)

\* find_matching_faq(user_question) with FAQ_DATABASE = table
find_in(table, user_question) == match_in(Refs(table), user_question)

\* return FAQ_DATABASE.copy(): a new list of the same dicts
get_all_faqs(table) == table

\* for i, faq in enumerate(FAQ_DATABASE, 1):
\*     faq_text += f"{i}. Q: {faq['question']}\n"; faq_text += f"   A: {faq['answer']}\n\n"
RECURSIVE format_entries(_, _)
format_entries(table, i) ==
  IF i > Len(table) THEN ""
  ELSE ToString(i) \o ". Q: " \o table[i].question \o "\n"
         \o "   A: " \o table[i].answer \o "\n\n" \o format_entries(table, i + 1)

format_faqs_for_prompt(table) ==
  "FREQUENTLY ASKED QUESTIONS (FAQs):\n" \o Rep("=", 60) \o "\n\n"
    \o format_entries(table, 1)

\* (mutant) the matched entry is moved to the front of the list
table_after_find_moves_hit(table, m) ==
  IF m.faq = None THEN table
  ELSE LET k == CHOOSE j \in 1..Len(table) : table[j].ref = m.faq
       IN  <<table[k]>> \o SubSeq(table, 1, k - 1) \o SubSeq(table, k + 1, Len(table))

\* (mutant) the list is reversed in place while it is formatted
table_after_format_reversed(table) ==
  [k \in 1..Len(table) |-> table[Len(table) + 1 - k]]

\* The list once the function has returned.  find_matching_faq iterates over
\* FAQ_DATABASE and returns one of its dicts, format_faqs_for_prompt iterates
\* over it, get_all_faqs copies it: none assigns the list or a dict.
table_after_find(table, m) == table
table_after_format(table) == table
table_after_copy(table) == table

\* One call on the FAQ module and what it returned: the entry found (None
\* when none), the text returned, the list returned
Call(fn, message, name, faq, text, list) ==
  [fn |-> fn, message |-> message, name |-> name,
   faq |-> faq, text |-> text, list |-> list]

\* The literal with two of its entries exchanged (i = j: as written)
Swapped(i, j) ==
  [k \in FaqIds |-> LoadedEntries[IF k = i THEN j ELSE IF k = j THEN i ELSE k]]
Orders == {Swapped(i, j) : i \in FaqIds, j \in FaqIds}
OrderQueries ==
  {"refund", "change", "refund subscription", "What payment methods do you accept?",
   "what happens if I forgot my password", "What's the weather today?"}

\* Sequences of up to MaxCalls calls
MaxCalls == 3
CallQueries ==
  {"What payment methods do you accept?", "refund", "What's the weather today?"}
CallNames == {Some("Sam")}
CallOutcomes ==
  {Raises, Result(Some("Sorry, I can only help with product FAQs."))}

\* One candidate scored against one query and against the query with extra
\* words appended: queries, and extras of up to MaxExtra words
MaxExtra == 2
ScoreQueries ==
  {"refund policy", "password reset email", "free trial", "refund", "reset",
   "what happens if I forgot my password", "How can I reset my password",
   "my", "hello", "subscription plan", "change my email address",
   "is there a payment method for mobile"}
ExtraVocabulary == {"weather", "hello", "password"}

RECURSIVE ExtraWords(_)
ExtraWords(n) ==
  IF n = 0 THEN {}
  ELSE ExtraVocabulary
         \cup {x \o " " \o w : x \in ExtraWords(n - 1), w \in ExtraVocabulary}

\* Update and delete operations: the id they name (that of the first record
\* created, which does not exist before and after it) and the fields an
\* update sets (one field at a time, null included, and two fields at once)
MessageIds == {1}
UpdatePayloads ==
  {"name" :> v : v \in {Nothing, Some("  "), Some("Ann")}}
  \cup {"email" :> v : v \in {Nothing, Some("ann.example.com")}}
  \cup {"message" :> v : v \in {Nothing, Some(Rep("y", MaxMessageLength + 1)),
                               Some("What is your refund policy?")}}
  \cup {"ai_response" :> Nothing}
  \cup {("name" :> Some("Ann")) @@ ("email" :> Some("ann@example.com"))}
CrudRequests == {"r1"}

(***************************************************************************)
(* States in which a part of the program is not exercised.                 *)
(***************************************************************************)
NotCalled == [called |-> FALSE, faq |-> None, scored |-> FALSE, best_score |-> ZeroScore]

MatchIdle == asked = "" /\ found = NotCalled
GenIdle == gen_message = "" /\ gen_name = Nothing /\ gen_call = IdleCall
DbIdle == db = <<>> /\ next_id = 1 /\ req = <<>>

TableLoaded == faq_database = LoadedEntries /\ calls = <<>>

NoCase == [called |-> FALSE]
CasesIdle ==
  score_case = NoCase /\ greeting = NoCase /\ ai_status = NoCase /\ last_op = NoCase

(***************************************************************************)
(* SpecMatch: find_matching_faq called on every query of Queries.          *)
(***************************************************************************)
InitMatch ==
  /\ asked \in Queries
  /\ found = NotCalled
  /\ GenIdle /\ DbIdle /\ TableLoaded /\ CasesIdle
  /\ GEMINI_API_KEY = Nothing

FindMatch ==
  /\ ~found.called
  /\ LET m == find_matching_faq(asked)
     IN  found' = [called |-> TRUE, faq |-> m.faq, scored |-> m.scored,
                   best_score |-> m.best_score]
  /\ UNCHANGED <<asked, genVars, GEMINI_API_KEY, dbVars, tableVars, caseVars>>

NextMatch == FindMatch

SpecMatch == InitMatch /\ [][NextMatch]_vars

(***************************************************************************)
(* SpecGen: generate_ai_response called on its own, with every provider    *)
(* outcome.                                                                *)
(***************************************************************************)
InitGen ==
  /\ gen_message \in GenMessages
  /\ gen_name \in GenNames
  /\ GEMINI_API_KEY \in EnvKeys
  /\ gen_call = IdleCall
  /\ MatchIdle /\ DbIdle /\ TableLoaded /\ CasesIdle

\* the call runs to its return or to `await Runner.run(...)`
GenCall ==
  /\ gen_call.pc = "idle"
  /\ LET m == find_matching_faq(gen_message)
     IN  \E client_ok \in BOOLEAN, agent_ok \in BOOLEAN :
           gen_call' = generate_after_match(m, gen_name, GEMINI_API_KEY,
                                            client_ok, agent_ok)
  /\ UNCHANGED <<gen_message, gen_name, GEMINI_API_KEY, matchVars, dbVars, tableVars, caseVars>>

\* Runner.run returns or raises; the call runs to its return
GenModelDone ==
  /\ gen_call.pc = "awaiting"
  /\ \E outcome \in RunOutcomes : gen_call' = generate_resume(gen_call, outcome)
  /\ UNCHANGED <<gen_message, gen_name, GEMINI_API_KEY, matchVars, dbVars, tableVars, caseVars>>

NextGen == GenCall \/ GenModelDone

SpecGen == InitGen /\ [][NextGen]_vars

(***************************************************************************)
(* Spec: create requests (POST /api/support-messages/), up to two in       *)
(* progress at once.                                                       *)
(***************************************************************************)
Init ==
  /\ db = <<>>
  /\ next_id = 1
  /\ req = [r \in Requests |-> NewRequest]
  /\ GEMINI_API_KEY \in CreateEnvKeys
  /\ MatchIdle /\ GenIdle /\ TableLoaded /\ CasesIdle

\* the request arrives; controller lines 40-56
Submit(r) ==
  /\ next_step(req, r) = "Submit"
  /\ \E data \in Payloads, commit_ok \in BOOLEAN, refresh_ok \in BOOLEAN :
       LET arrived == [req[r] EXCEPT !.waiting_at_arrival = waiting(req)]
           out == create_record(arrived, data, db, next_id, commit_ok, refresh_ok)
       IN  /\ req' = [req EXCEPT ![r] = out.rq]
           /\ db' = out.table
           /\ next_id' = out.next_id
  /\ UNCHANGED <<GEMINI_API_KEY, matchVars, genVars, tableVars, caseVars>>

\* controller lines 65-69, up to the return of generate_ai_response or to
\* its model call
Generate(r) ==
  /\ next_step(req, r) = "Generate"
  /\ \E m \in {find_matching_faq(req[r].message_data.message)},
        client_ok \in BOOLEAN, agent_ok \in BOOLEAN :
       req' = [req EXCEPT ![r] =
                 call_generator(req[r], m, GEMINI_API_KEY, client_ok, agent_ok)]
  /\ UNCHANGED <<db, next_id, GEMINI_API_KEY, matchVars, genVars, tableVars, caseVars>>

\* the model call returns or raises; generate_ai_response returns
ModelDone(r) ==
  /\ req[r].pc = "awaiting"
  /\ \E outcome \in CreateOutcomes :
       req' = [req EXCEPT ![r] = resume_generator(req[r], outcome)]
  /\ UNCHANGED <<db, next_id, GEMINI_API_KEY, matchVars, genVars, tableVars, caseVars>>

\* controller lines 74-91, routes lines 46-53
Attach(r) ==
  /\ next_step(req, r) = "Attach"
  /\ \E commit \in CommitOutcomes, refresh_ok \in BOOLEAN, reload_ok \in BOOLEAN :
       LET out == attach_response(req[r], db, commit, refresh_ok, reload_ok)
       IN  /\ req' = [req EXCEPT ![r] = out.rq]
           /\ db' = out.table
  /\ UNCHANGED <<next_id, GEMINI_API_KEY, matchVars, genVars, tableVars, caseVars>>

\* the process stops between two steps of the requests in progress
Crash ==
  /\ \E r \in Requests : in_progress(req[r])
  /\ req' = crash(req)
  /\ UNCHANGED <<db, next_id, GEMINI_API_KEY, matchVars, genVars, tableVars, caseVars>>

Next ==
  \/ \E r \in Requests : Submit(r) \/ Generate(r) \/ ModelDone(r) \/ Attach(r)
  \/ Crash

Spec == Init /\ [][Next]_vars

(***************************************************************************)
(* SpecPersonalize: lines 131-140 of generate_ai_response, for every       *)
(* answer of Answers and every customer name.                              *)
(***************************************************************************)
InitPersonalize ==
  /\ greeting \in {[called |-> FALSE, answer |-> a, customer_name |-> n, text |-> ""] :
                     a \in Answers, n \in CustomerNames}
  /\ score_case = NoCase /\ ai_status = NoCase /\ last_op = NoCase
  /\ MatchIdle /\ GenIdle /\ DbIdle /\ TableLoaded
  /\ GEMINI_API_KEY = Nothing

Personalize ==
  /\ ~greeting.called
  /\ greeting' = [greeting EXCEPT
                    !.called = TRUE,
                    !.text = personalize(greeting.answer, greeting.customer_name)]
  /\ UNCHANGED <<matchVars, genVars, GEMINI_API_KEY, dbVars, tableVars, score_case,
                 ai_status, last_op>>

NextPersonalize == Personalize

SpecPersonalize == InitPersonalize /\ [][NextPersonalize]_vars

(***************************************************************************)
(* SpecCalls: up to MaxCalls calls of find_matching_faq,                   *)
(* generate_ai_response, format_faqs_for_prompt and get_all_faqs, in any   *)
(* order, on the list as loaded.                                           *)
(***************************************************************************)
InitCalls ==
  /\ TableLoaded
  /\ GEMINI_API_KEY = Some("k")
  /\ MatchIdle /\ GenIdle /\ DbIdle /\ CasesIdle

CallFind ==
  /\ Len(calls) < MaxCalls
  /\ \E q \in CallQueries : \E m \in {find_in(faq_database, q)} :
       /\ calls' = Append(calls, Call("find_matching_faq", q, Nothing, m.faq, "", <<>>))
       /\ faq_database' = table_after_find(faq_database, m)
  /\ UNCHANGED <<matchVars, genVars, GEMINI_API_KEY, dbVars, caseVars>>

\* generate_ai_response from its first line to its return; on a miss it
\* calls format_faqs_for_prompt (line 157) before the model call
CallGenerate ==
  /\ Len(calls) < MaxCalls
  /\ \E q \in CallQueries, name \in CallNames, outcome \in CallOutcomes :
     \E m \in {find_in(faq_database, q)} :
       LET begun == generate_after_match(m, name, GEMINI_API_KEY, TRUE, TRUE)
           ended == IF begun.pc = "awaiting" THEN generate_resume(begun, outcome)
                    ELSE begun
           table == table_after_find(faq_database, m)
       IN  /\ calls' = Append(calls, Call("generate_ai_response", q, name,
                                          ended.matching_faq, ended.response, <<>>))
           /\ faq_database' = IF begun.pc = "awaiting" THEN table_after_format(table)
                              ELSE table
  /\ UNCHANGED <<matchVars, genVars, GEMINI_API_KEY, dbVars, caseVars>>

CallFormat ==
  /\ Len(calls) < MaxCalls
  /\ calls' = Append(calls, Call("format_faqs_for_prompt", "", Nothing, None,
                                 format_faqs_for_prompt(faq_database), <<>>))
  /\ faq_database' = table_after_format(faq_database)
  /\ UNCHANGED <<matchVars, genVars, GEMINI_API_KEY, dbVars, caseVars>>

CallGetAll ==
  /\ Len(calls) < MaxCalls
  /\ calls' = Append(calls, Call("get_all_faqs", "", Nothing, None, "",
                                 get_all_faqs(faq_database)))
  /\ faq_database' = table_after_copy(faq_database)
  /\ UNCHANGED <<matchVars, genVars, GEMINI_API_KEY, dbVars, caseVars>>

NextCalls == CallFind \/ CallGenerate \/ CallFormat \/ CallGetAll

SpecCalls == InitCalls /\ [][NextCalls]_vars

(***************************************************************************)
(* SpecOrder: find_matching_faq on the list with two entries exchanged,    *)
(* for every pair of entries.                                              *)
(***************************************************************************)
InitOrder ==
  /\ faq_database \in Orders
  /\ calls = <<>>
  /\ asked \in OrderQueries
  /\ found = NotCalled
  /\ GenIdle /\ DbIdle /\ CasesIdle
  /\ GEMINI_API_KEY = Nothing

FindInOrder ==
  /\ ~found.called
  /\ \E m \in {find_in(faq_database, asked)} :
       /\ found' = [called |-> TRUE, faq |-> m.faq, scored |-> m.scored,
                    best_score |-> m.best_score]
       /\ faq_database' = table_after_find(faq_database, m)
  /\ UNCHANGED <<asked, calls, genVars, GEMINI_API_KEY, dbVars, caseVars>>

NextOrder == FindInOrder

SpecOrder == InitOrder /\ [][NextOrder]_vars

(***************************************************************************)
(* SpecScore: the body of the keyword loop (lines 158-206) for one         *)
(* candidate, on a query and on the same query with extra words appended.  *)
(***************************************************************************)
\* lines 158-206 for candidate faq and the query: whether the candidate is
\* scored at all (len(common_keywords) > 0), its score before the phrase
\* loop and after it (0 when it is not scored)
score_of(faq, user_question) ==
  LET user_question_lower == normalize(user_question)
      user_keywords == findall_words(user_question_lower)
      counted == Cardinality(common_keywords(faq, user_keywords)) > 0
  IN  [counted |-> counted,
       base |-> IF counted THEN base_score(faq, user_keywords) ELSE ZeroScore,
       final |-> final_score(faq, user_question_lower, user_keywords)]

InitScore ==
  /\ score_case \in {[called |-> FALSE, query |-> q, extra |-> x, faq |-> e] :
                       q \in ScoreQueries, x \in ExtraWords(MaxExtra), e \in FaqIds}
  /\ greeting = NoCase /\ ai_status = NoCase /\ last_op = NoCase
  /\ MatchIdle /\ GenIdle /\ DbIdle /\ TableLoaded
  /\ GEMINI_API_KEY = Nothing

Score ==
  /\ ~score_case.called
  /\ score_case' =
       [called |-> TRUE, query |-> score_case.query, extra |-> score_case.extra,
        faq |-> score_case.faq,
        plain |-> score_of(score_case.faq, score_case.query),
        extended |-> score_of(score_case.faq,
                              score_case.query \o " " \o score_case.extra)]
  /\ UNCHANGED <<matchVars, genVars, GEMINI_API_KEY, dbVars, tableVars, greeting,
                 ai_status, last_op>>

NextScore == Score

SpecScore == InitScore /\ [][NextScore]_vars

(***************************************************************************)
(* SpecHealth: one call of GET /health/ai for every value of the           *)
(* environment variable and every outcome of the constructors.             *)
(***************************************************************************)
InitHealth ==
  /\ GEMINI_API_KEY \in EnvKeys
  /\ ai_status = NoCase
  /\ score_case = NoCase /\ greeting = NoCase /\ last_op = NoCase
  /\ MatchIdle /\ GenIdle /\ DbIdle /\ TableLoaded

HealthCheck ==
  /\ ~ai_status.called
  /\ \E client_ok \in BOOLEAN, agent_ok \in BOOLEAN :
       ai_status' = [called |-> TRUE, client_ok |-> client_ok, agent_ok |-> agent_ok,
                     gemini |-> ai_health_check(GEMINI_API_KEY, client_ok, agent_ok)]
  /\ UNCHANGED <<matchVars, genVars, GEMINI_API_KEY, dbVars, tableVars,
                 score_case, greeting, last_op>>

NextHealth == HealthCheck

SpecHealth == InitHealth /\ [][NextHealth]_vars

(***************************************************************************)
(* SpecCrud: a create request with update and delete operations on the     *)
(* table in any order, before, during and after it.                        *)
(***************************************************************************)
InitCrud == Init /\ IsSome(GEMINI_API_KEY)

Update ==
  /\ \E message_id \in MessageIds, update_data \in UpdatePayloads,
        commit_ok \in BOOLEAN :
       LET out == update_support_message(db, message_id, update_data, commit_ok)
       IN  /\ db' = out.table
           /\ last_op' = [called |-> TRUE, op |-> "update",
                          message_id |-> message_id, update_data |-> update_data,
                          status |-> out.status]
  /\ UNCHANGED <<req, next_id, GEMINI_API_KEY, matchVars, genVars, tableVars,
                 score_case, greeting, ai_status>>

Delete ==
  /\ \E message_id \in MessageIds, commit_ok \in BOOLEAN :
       LET out == delete_support_message(db, message_id, commit_ok)
       IN  /\ db' = out.table
           /\ last_op' = [called |-> TRUE, op |-> "delete",
                          message_id |-> message_id, status |-> out.status]
  /\ UNCHANGED <<req, next_id, GEMINI_API_KEY, matchVars, genVars, tableVars,
                 score_case, greeting, ai_status>>

NextCrud ==
  \/ \E r \in CrudRequests : Submit(r) \/ Generate(r) \/ ModelDone(r) \/ Attach(r)
  \/ Update
  \/ Delete

SpecCrud == InitCrud /\ [][NextCrud]_vars

(***************************************************************************)
(* Properties of find_matching_faq (SpecMatch).                            *)
(***************************************************************************)
\* every question trimmed and lower-cased
TrimmedLowerQuestion == [e \in FaqIds |-> strip(lower(FAQ_DATABASE[e].question))]

\* the entries whose question, trimmed and lower-cased, is the query's
SameNormalized(q) ==
  LET tl == strip(lower(q)) IN {e \in FaqIds : TrimmedLowerQuestion[e] = tl}

\* C3 as claimed: a query equal, after trim and lower-case, to entry e's
\* question returns that very entry e, without keyword scoring.
C3_ReturnsThatEntry ==
  found.called =>
    LET same == SameNormalized(asked)
    IN  \A e \in same : found.faq = e /\ ~found.scored

\* C3 as amended: such a query returns the first entry of the table whose
\* normalized question equals the query's (e itself unless an earlier entry
\* normalizes to the same text), without keyword scoring.
C3_ReturnsFirstSuchEntry ==
  found.called =>
    LET same == SameNormalized(asked)
    IN  same # {} =>
          /\ found.faq \in same
          /\ \A e \in same : found.faq <= e
          /\ ~found.scored

\* a query that matches two entries exactly has been answered
C3_Witness ==
  /\ found.called
  /\ Cardinality(SameNormalized(asked)) > 1
  /\ asked # FAQ_DATABASE[found.faq].question

\* the words of every question that are no stop words
MeaningfulVocabulary == UNION {faq_keywords[i] \ stop_words : i \in FaqIds}

\* C4: a query whose word tokens are all stop words or words outside every
\* question's non-stop-word vocabulary has no match.
C4_NoMeaningfulWordNoMatch ==
  found.called /\ (findall_words(strip(lower(asked))) \cap MeaningfulVocabulary) \subseteq stop_words
    => found.faq = None

\* a query made of stop words that do occur in questions was answered None
C4_Witness ==
  /\ found.called /\ found.faq = None
  /\ LET tokens == findall_words(strip(lower(asked)))
     IN  /\ tokens # {}
         /\ tokens \subseteq stop_words
         /\ \E i \in FaqIds : tokens \subseteq faq_keywords[i]

\* the final score of every entry for the query asked
ScoresOfAsked ==
  LET tl == strip(lower(asked))
      tokens == findall_words(tl)
  IN  [e \in FaqIds |-> final_score(e, tl, tokens)]

\* C5: without an exact match an entry is returned iff the highest final
\* score is at least 0.3, and the entry returned holds that highest score.
C5_BestAboveThreshold ==
  found.called /\ SameNormalized(asked) = {} =>
    LET scores == ScoresOfAsked
        top == CHOOSE e \in FaqIds : \A o \in FaqIds : RatGE(scores[e], scores[o])
    IN  /\ (found.faq # None) <=> RatGE(scores[top], Rat(3, 10))
        /\ found.faq # None => RatEQ(scores[found.faq], scores[top])

\* a query whose best candidate scores above 0 and below the threshold
C5_Witness ==
  /\ found.called /\ found.scored /\ found.faq = None
  /\ RatGT(found.best_score, ZeroScore)

(***************************************************************************)
(* Properties of generate_ai_response (SpecGen).                           *)
(***************************************************************************)
\* r is t without its leading and trailing whitespace
IsTrimOf(r, t) ==
  \E i \in 1..(Len(t) + 1) : \E j \in (i - 1)..Len(t) :
    /\ r = SubSeq(t, i, j)
    /\ \A k \in 1..(i - 1) : CharAt(t, k) \in Whitespace
    /\ \A k \in (j + 1)..Len(t) : CharAt(t, k) \in Whitespace
    /\ i <= j => CharAt(t, i) \notin Whitespace /\ CharAt(t, j) \notin Whitespace

\* the response is the matched entry's answer, as stored or personalized
IsFaqAnswer(c, name) ==
  /\ c.matching_faq # None
  /\ LET a == FAQ_DATABASE[c.matching_faq].answer
     IN  \/ c.response = a
         \/ /\ IsSome(name)
            /\ c.response \in
                 {"Hi " \o name[1] \o ", " \o a,
                  "Hi " \o name[1] \o ", " \o upper(SubSeq(a, 1, 1))
                     \o SubSeq(a, 2, Len(a))}

\* the response is the model's output, trimmed, and longer than 10 characters
IsModelOutput(c) ==
  /\ c.result.kind = "result" /\ IsSome(c.result.final_output)
  /\ IsTrimOf(c.response, c.result.final_output[1])
  /\ Len(c.response) > 10

\* C1: generate_ai_response never raises and never returns "": it returns
\* exactly one of the matched FAQ answer (possibly personalized), model output
\* longer than 10 characters, or the fixed fallback sentence.
C1_NeverRaisesNeverEmpty ==
  /\ gen_call.pc # "raised"
  /\ gen_call.pc = "returned" =>
       /\ gen_call.response # ""
       /\ Cardinality({k \in {"faq", "model", "fallback"} :
             \/ k = "faq" /\ IsFaqAnswer(gen_call, gen_name)
             \/ k = "model" /\ IsModelOutput(gen_call)
             \/ k = "fallback" /\ gen_call.response = MOCK_RESPONSE}) = 1

\* the model call raised and the call returned the fallback sentence
C1_Witness ==
  /\ gen_call.pc = "returned" /\ gen_call.result.kind = "raise"
  /\ gen_call.response = MOCK_RESPONSE

\* C2: after a FAQ hit the call has returned, and it has constructed no
\* client, no agent and made no model call.
C2_FaqHitNoModelCall ==
  gen_call.matching_faq # None =>
    /\ gen_call.pc = "returned"
    /\ gen_call.client_ctor = 0 /\ gen_call.agent_ctor = 0
    /\ gen_call.model_calls = 0 /\ gen_call.result = NoResult

\* a FAQ hit found by keyword scoring, with a credential configured
C2_Witness ==
  /\ gen_call.pc = "returned" /\ gen_call.matching_faq # None /\ gen_call.scored
  /\ GEMINI_API_KEY = Some("k")

\* characters i..j of s all belong to chars
AllIn(s, i, j, chars) == \A k \in i..j : CharAt(s, k) \in chars

\* the variable is unset, or nothing is left of it once whitespace, then
\* double quotes, then single quotes are stripped from its ends
KeyBlank(env) ==
  \/ env = Nothing
  \/ LET v == env[1]
         n == Len(v)
     IN  \E a \in 0..n : \E b \in a..n : \E c \in b..n : \E d \in c..n :
           /\ AllIn(v, 1, a, Whitespace)
           /\ AllIn(v, a + 1, b, {"\""})
           /\ AllIn(v, b + 1, c, {"'"})
           /\ AllIn(v, c + 1, d, {"\""})
           /\ AllIn(v, d + 1, n, Whitespace)

\* the number of characters from the first to the last one that is no whitespace
TrimmedLength(t) ==
  LET solid == {k \in 1..Len(t) : CharAt(t, k) \notin Whitespace}
  IN  IF solid = {} THEN 0 ELSE SetMax(solid) - SetMin(solid) + 1

\* C6: on a FAQ miss every provider failure (no credential, a constructor
\* raising, the model call raising, no final output, an output of trimmed
\* length <= 10) gives exactly the fallback sentence; an output of trimmed
\* length > 10 is returned trimmed.
C6_FailuresGiveFallback ==
  gen_call.pc = "returned" /\ gen_call.matching_faq = None =>
    LET out == gen_call.result.final_output
        usable ==
          /\ ~KeyBlank(GEMINI_API_KEY)
          /\ gen_call.client_ctor = 1 /\ gen_call.agent_ctor = 1
          /\ gen_call.model_calls = 1
          /\ gen_call.result.kind = "result" /\ IsSome(out)
          /\ TrimmedLength(out[1]) > 10
    IN  /\ KeyBlank(GEMINI_API_KEY) =>
             gen_call.client_ctor = 0 /\ gen_call.model_calls = 0
        /\ IF usable
             THEN IsTrimOf(gen_call.response, out[1])
             ELSE gen_call.response = MOCK_RESPONSE

\* the model returned more than 10 characters of which at most 10 are left
\* after trimming, and the call returned the fallback sentence
C6_Witness ==
  /\ gen_call.pc = "returned" /\ gen_call.matching_faq = None
  /\ IsSome(gen_call.result.final_output)
  /\ Len(gen_call.result.final_output[1]) > 10
  /\ gen_call.response = MOCK_RESPONSE

(***************************************************************************)
(* Properties of the create request (Spec).                                *)
(***************************************************************************)
\* the request has been answered 201 with the record as body
Created(rq) ==
  rq.pc = "done" /\ rq.status = HTTP_201_CREATED /\ IsSome(rq.body)

\* C7: every answered create request that passed validation, whose initial
\* write committed and which went on to response generation is answered 201
\* with the record, whether or not generation or the second write succeeded.
C7_CreatedDespiteLaterFailures ==
  \A r \in Requests :
    (/\ req[r].pc = "done" /\ req[r].validated
     /\ req[r].first_commit = "ok" /\ req[r].gen_calls = 1)
      => Created(req[r])

\* s is empty or made of whitespace only
Blank(s) == AllIn(s, 1, Len(s), Whitespace)

\* the well-formed addresses among the bodies' emails
WellFormedEmails == {"sam@example.com"}

\* the bodies C8 says are rejected
Invalid(d) ==
  \/ Blank(d.name)
  \/ d.email \notin WellFormedEmails
  \/ Blank(d.message)
  \/ Len(d.message) > 10000

\* C8: a received create request with an invalid body has been answered 400
\* with a reason and has done nothing else (no validation passed, no commit,
\* no row, no matcher or generator call); a request with any other body, one
\* with a message of exactly 10,000 characters included, has passed
\* validation; and every row of the table carries the body of a request that
\* passed validation.
C8_InvalidRejectedFirst ==
  /\ \A r \in Requests :
       req[r].pc # "new" =>
         /\ Invalid(req[r].message_data) =>
              /\ req[r].pc = "done" /\ req[r].status = HTTP_400_BAD_REQUEST
              /\ req[r].detail # "" /\ req[r].body = Nothing
              /\ ~req[r].validated /\ req[r].first_commit = "none"
              /\ req[r].row_id = None
              /\ req[r].gen_calls = 0 /\ req[r].call = IdleCall
         /\ ~Invalid(req[r].message_data) =>
              req[r].validated /\ req[r].status # HTTP_400_BAD_REQUEST
  /\ \A id \in DOMAIN db :
       \E r \in Requests :
         /\ req[r].validated /\ ~Invalid(req[r].message_data)
         /\ db[id].name = req[r].message_data.name
         /\ db[id].email = req[r].message_data.email
         /\ db[id].message = req[r].message_data.message

\* a message of 10,001 characters has been rejected and one of 10,000
\* characters has been stored and returned
C8_Witness ==
  \E r1 \in Requests, r2 \in Requests :
    /\ Len(req[r1].message_data.message) = 10001
    /\ req[r1].pc = "done" /\ req[r1].status = HTTP_400_BAD_REQUEST
    /\ Len(req[r2].message_data.message) = 10000
    /\ Created(req[r2]) /\ req[r2].row_id \in DOMAIN db

\* C9: a request whose initial commit failed has been answered 500, has
\* called neither the matcher nor the generator, and has no row: the table
\* has exactly one row per request whose initial commit succeeded.
C9_FirstWriteFailurePropagates ==
  /\ \A r \in Requests :
       req[r].first_commit = "failed" =>
         /\ req[r].pc = "done"
         /\ req[r].status = HTTP_500_INTERNAL_SERVER_ERROR
         /\ req[r].body = Nothing
         /\ req[r].gen_calls = 0 /\ req[r].call = IdleCall
         /\ req[r].row_id = None
  /\ Cardinality(DOMAIN db) =
       Cardinality({r \in Requests : req[r].first_commit = "ok"})

\* one request's initial commit failed while another request's record is in
\* the table
C9_Witness ==
  \E r1 \in Requests, r2 \in Requests :
    /\ req[r1].first_commit = "failed" /\ req[r1].pc = "done"
    /\ req[r2].first_commit = "ok" /\ req[r2].row_id \in DOMAIN db

\* the model call failed, or completed with nothing usable
Unusable(result) ==
  \/ result.kind = "raise"
  \/ /\ result.kind = "result"
     /\ \/ result.final_output = Nothing
        \/ TrimmedLength(result.final_output[1]) <= 10

\* C10: a generate_ai_response call makes at most one model call and one
\* matcher call; once the model call has completed the call has returned,
\* with the fallback sentence when the completion failed or was unusable;
\* and a create request calls generate_ai_response at most once.
C10_NoRetry ==
  \A r \in Requests :
    LET c == req[r].call
    IN  /\ c.model_calls <= 1 /\ c.find_calls <= 1
        /\ req[r].gen_calls <= 1
        /\ c.pc # "idle" => req[r].gen_calls = 1
        /\ c.result.kind # "none" => c.pc = "returned" /\ c.model_calls = 1
        /\ Unusable(c.result) => c.response = MOCK_RESPONSE

\* a request is answered after its one model call raised
C10_Witness ==
  \E r \in Requests :
    /\ req[r].pc = "done" /\ req[r].gen_calls = 1
    /\ req[r].call.result.kind = "raise" /\ req[r].call.model_calls = 1
    /\ req[r].call.response = MOCK_RESPONSE

(***************************************************************************)
(* Properties of the personalization (SpecPersonalize).                    *)
(***************************************************************************)
\* c is a lower-case letter and C the same letter in upper case
UpperCaseOf(c, C) ==
  \E i \in 1..26 : CharAt(LowerLetters, i) = c /\ CharAt(UpperLetters, i) = C

IsLowerLetter(c) == \E i \in 1..26 : CharAt(LowerLetters, i) = c

\* b is a with at most its first character changed, from a lower-case letter
\* to the same letter in upper case
Recapitalized(a, b) ==
  /\ Len(b) = Len(a)
  /\ SubSeq(b, 2, Len(b)) = SubSeq(a, 2, Len(a))
  /\ a # "" =>
       IF IsLowerLetter(CharAt(a, 1))
         THEN UpperCaseOf(CharAt(a, 1), CharAt(b, 1))
         ELSE CharAt(b, 1) = CharAt(a, 1)

\* C11: with a (non-empty) customer name the text is "Hi <name>, " followed
\* by the answer, changed at most by upper-casing a lower-case first letter;
\* with no name, or an empty one, the text is the answer unchanged.
C11_GreetingThenAnswer ==
  greeting.called =>
    LET a == greeting.answer
        n == greeting.customer_name
        t == greeting.text
    IN  IF n # Nothing /\ n[1] # ""
          THEN LET head == "Hi " \o n[1] \o ", "
               IN  /\ Len(t) = Len(head) + Len(a)
                   /\ SubSeq(t, 1, Len(head)) = head
                   /\ Recapitalized(a, SubSeq(t, Len(head) + 1, Len(t)))
          ELSE t = a

\* an answer that begins with a lower-case letter has been personalized
C11_Witness ==
  /\ greeting.called /\ greeting.customer_name = Some("Sam")
  /\ greeting.answer # "" /\ IsLowerLetter(CharAt(greeting.answer, 1))
  /\ greeting.text # "Hi Sam, " \o greeting.answer

C13_TableAsLoaded ==
  /\ Len(faq_database) = Len(FAQ_DATABASE)
  /\ \A i \in 1..Len(faq_database) :
       /\ faq_database[i].ref = i
       /\ faq_database[i].question = FAQ_DATABASE[i].question
       /\ faq_database[i].answer = FAQ_DATABASE[i].answer

\* the four functions have run: generate_ai_response on a miss (it calls
\* find_matching_faq and format_faqs_for_prompt), a match, and get_all_faqs
C13_Witness ==
  /\ Len(calls) = 3
  /\ \E i \in 1..3 : calls[i].fn = "generate_ai_response" /\ calls[i].faq = None
  /\ \E i \in 1..3 : calls[i].fn = "find_matching_faq" /\ calls[i].faq # None
  /\ \E i \in 1..3 : calls[i].fn = "get_all_faqs" /\ Len(calls[i].list) = Len(FAQ_DATABASE)

(***************************************************************************)
(* Properties of find_matching_faq on a reordered list (SpecOrder).        *)
(***************************************************************************)
\* the position of entry e in the list
PositionOf(e) == CHOOSE k \in 1..Len(faq_database) : faq_database[k].ref = e

\* entry e comes first in the list among the entries of S
FirstInListAmong(e, S) ==
  e \in S /\ \A o \in S : PositionOf(e) <= PositionOf(o)

\* what find_matching_faq returns for the query on the literal's order
InLiteralOrder == find_matching_faq(asked)

\* C14 as claimed: on every reordered list the query returns the entry it
\* returns on the literal's order.
C14_SameEntryInAnyOrder ==
  found.called => found.faq = InLiteralOrder.faq

\* C14 as amended: on every reordered list the query matches iff it matches
\* on the literal's order, by the same rule; the entry returned is the first
\* in the list among the entries whose normalized question equals the query
\* (exact match) or among those holding the highest final score (keyword
\* scoring), so it differs from the literal order's only among such equals.
C14_SameUpToEquals ==
  found.called =>
    LET orig == InLiteralOrder
        scores == ScoresOfAsked
    IN  /\ (found.faq = None) <=> (orig.faq = None)
        /\ found.scored = orig.scored
        /\ found.faq # None /\ ~found.scored =>
             FirstInListAmong(found.faq, SameNormalized(asked))
        /\ found.faq # None /\ found.scored =>
             FirstInListAmong(found.faq,
               {e \in FaqIds : RatEQ(scores[e], scores[orig.faq])})

\* a reordered list on which the query returns another entry than on the
\* literal's order
C14_Witness ==
  /\ found.called /\ found.scored
  /\ found.faq # None /\ InLiteralOrder.faq # None
  /\ found.faq # InLiteralOrder.faq

\* C15: the generator is called only by a request whose record is committed,
\* the second commit is attempted only after the generator has returned, and
\* the stored ai_response is NULL until the second commit succeeds and the
\* returned text afterwards; so a request that crashed after its first commit
\* and before its second leaves its record stored with ai_response NULL.
C15_TwoCommitsInOrder ==
  \A r \in Requests :
    LET rq == req[r]
    IN  /\ rq.gen_calls > 0 => rq.first_commit = "ok"
        /\ rq.second_commit # "none" =>
             rq.first_commit = "ok" /\ rq.gen_calls = 1 /\ rq.call.pc = "returned"
        /\ rq.first_commit = "ok" =>
             /\ rq.row_id \in DOMAIN db
             /\ db[rq.row_id].name = rq.message_data.name
             /\ db[rq.row_id].message = rq.message_data.message
             /\ db[rq.row_id].ai_response =
                  IF rq.second_commit = "ok" THEN Some(rq.call.response) ELSE Nothing
        /\ rq.pc = "crashed" => rq.first_commit = "ok" /\ rq.second_commit = "none"

\* the process crashed after a request's response was generated and before
\* its second commit: the record is stored without a response
C15_Witness ==
  \E r \in Requests :
    /\ req[r].pc = "crashed" /\ req[r].call.pc = "returned"
    /\ req[r].row_id \in DOMAIN db
    /\ db[req[r].row_id].ai_response = Nothing

C17_ForgotPasswordScenario ==
  (/\ gen_message = "what happens if I forgot my password"
   /\ gen_name = Some("Sam") /\ gen_call.pc # "idle")
    => /\ gen_call.pc = "returned"
       /\ SameNormalized(gen_message) = {}
       /\ gen_call.scored /\ gen_call.matching_faq # None
       /\ FAQ_DATABASE[gen_call.matching_faq].question = "How can I reset my password?"
       /\ gen_call.response =
            "Hi Sam, Go to the login page and click 'Forgot Password'. You'll receive a reset email."
       /\ gen_call.client_ctor = 0 /\ gen_call.agent_ctor = 0
       /\ gen_call.model_calls = 0 /\ gen_call.result = NoResult

\* the scenario has run with a credential configured
C17_Witness ==
  /\ gen_message = "what happens if I forgot my password"
  /\ gen_name = Some("Sam") /\ gen_call.pc = "returned"
  /\ gen_call.find_calls = 1
  /\ GEMINI_API_KEY = Some("k")

(***************************************************************************)
(* Ties (SpecMatch).                                                       *)
(***************************************************************************)
\* C18: the entry returned by keyword scoring scores strictly more than
\* every entry before it in the table and at least as much as every entry
\* after it: of several entries with the highest score the first is kept.
C18_TieKeepsFirst ==
  found.called /\ found.scored /\ found.faq # None =>
    LET scores == ScoresOfAsked
    IN  \A e \in FaqIds :
          /\ e < found.faq => RatGT(scores[found.faq], scores[e])
          /\ e > found.faq => RatGE(scores[found.faq], scores[e])

\* a later entry reached the same highest score as the entry returned
C18_Witness ==
  /\ found.called /\ found.scored /\ found.faq # None
  /\ \E e \in FaqIds :
       e > found.faq /\ RatEQ(ScoresOfAsked[e], ScoresOfAsked[found.faq])

(***************************************************************************)
(* Properties of a candidate's score (SpecScore).                          *)
(***************************************************************************)
\* the word tokens of a text, trimmed and lower-cased
TokensOf(q) == findall_words(strip(lower(q)))

\* the candidate's tokens that are no stop words
MeaningfulTokens(e) == faq_keywords[e] \ stop_words

\* C19: a scored candidate's base score is the number of its non-stop-word
\* tokens that occur in the query over the number of its non-stop-word
\* tokens (at least 1), hence at most 1; and appending to the query words
\* that do not occur in the candidate changes neither whether the candidate
\* is scored nor its base score.
C19_BaseScoreAsymmetric ==
  score_case.called =>
    LET e == score_case.faq
        shared == MeaningfulTokens(e) \cap TokensOf(score_case.query)
        divisor == IF MeaningfulTokens(e) = {} THEN 1
                   ELSE Cardinality(MeaningfulTokens(e))
    IN  /\ score_case.plain.counted <=> shared # {}
        /\ score_case.plain.counted =>
             /\ score_case.plain.base.n * divisor
                  = Cardinality(shared) * score_case.plain.base.d
             /\ score_case.plain.base.n <= score_case.plain.base.d
        /\ TokensOf(score_case.extra) \cap faq_keywords[e] = {} =>
             /\ score_case.extended.counted = score_case.plain.counted
             /\ RatEQ(score_case.extended.base, score_case.plain.base)

\* a candidate scored against a query that, with the extra words, has more
\* tokens than the candidate has meaningful ones, none of the extra words
\* occurring in the candidate
C19_Witness ==
  /\ score_case.called /\ score_case.plain.counted
  /\ TokensOf(score_case.extra) \cap faq_keywords[score_case.faq] = {}
  /\ Cardinality(TokensOf(score_case.query \o " " \o score_case.extra))
       > Cardinality(MeaningfulTokens(score_case.faq))
  /\ RatEQ(score_case.plain.base, Rat(1, 1))

\* the key phrases that are substrings of both the lower-cased query and the
\* lower-cased question of the candidate
SharedPhrases(e, q) ==
  {p \in 1..Len(key_phrases) :
     /\ Contains(key_phrases[p], strip(lower(q)))
     /\ Contains(key_phrases[p], lower(FAQ_DATABASE[e].question))}

\* C20: a scored candidate's final score is its base score plus 0.3 when it
\* shares at least one key phrase with the query, however many it shares,
\* and its base score otherwise; no final score exceeds 1.3.
C20_BoostOnce ==
  score_case.called =>
    LET shared == SharedPhrases(score_case.faq, score_case.query)
        s == score_case.plain
    IN  /\ s.counted /\ shared # {} => RatEQ(s.final, RatAdd(s.base, Rat(3, 10)))
        /\ s.counted /\ shared = {} => RatEQ(s.final, s.base)
        /\ ~s.counted => RatEQ(s.final, Rat(0, 1))
        /\ RatGE(Rat(13, 10), s.final)
        /\ RatGE(Rat(13, 10), score_case.extended.final)

\* a candidate sharing two key phrases with the query reached 1.3
C20_Witness ==
  /\ score_case.called /\ score_case.plain.counted
  /\ Cardinality(SharedPhrases(score_case.faq, score_case.query)) >= 2
  /\ RatEQ(score_case.plain.final, Rat(13, 10))

(***************************************************************************)
(* Candidates sharing no meaningful token with the query (SpecMatch).      *)
(***************************************************************************)
\* C21: when keyword scoring runs, a candidate none of whose non-stop-word
\* tokens occurs in the query scores 0 and is not the entry returned, whether
\* or not the query and its question share a key phrase; when no candidate
\* shares such a token the best score stays 0 and nothing is returned.
C21_BoostAloneNeverMatches ==
  found.called /\ found.scored =>
    LET unshared == {e \in FaqIds : MeaningfulTokens(e) \cap TokensOf(asked) = {}}
    IN  /\ \A e \in unshared :
             /\ RatEQ(ScoresOfAsked[e], Rat(0, 1))
             /\ found.faq # e
        /\ unshared = FaqIds =>
             /\ found.faq = None
             /\ RatEQ(found.best_score, Rat(0, 1))

\* keyword scoring ran on a query that shares a key phrase, and no
\* meaningful token, with some candidate
C21_Witness ==
  /\ found.called /\ found.scored
  /\ \E e \in FaqIds :
       /\ MeaningfulTokens(e) \cap TokensOf(asked) = {}
       /\ SharedPhrases(e, asked) # {}

(***************************************************************************)
(* Properties of the AI health check (SpecHealth).                         *)
(***************************************************************************)
\* an API key is configured
KeyConfigured == IsSome(get_gemini_api_key(GEMINI_API_KEY))

\* the agent was built: a key is configured and both constructors returned
AgentBuilt == KeyConfigured /\ ai_status.client_ok /\ ai_status.agent_ok

\* C22: the health check answers "ready" with client_initialized true exactly
\* when a key is configured and the agent was built, "api_key_not_found"
\* when no key is configured, and "api_key_found_but_client_not_initialized"
\* when a key is configured and the agent was not built.
C22_HealthReportsConfiguration ==
  ai_status.called =>
    /\ (ai_status.gemini.status = "ready" /\ ai_status.gemini.client_initialized)
         <=> AgentBuilt
    /\ ~KeyConfigured => ai_status.gemini.status = "api_key_not_found"
    /\ KeyConfigured /\ ~AgentBuilt =>
         ai_status.gemini.status = "api_key_found_but_client_not_initialized"

(***************************************************************************)
(* What the create request returns against what is stored (Spec).          *)
(***************************************************************************)
\* request r is answered in this step with the record as body
ReturnsRecord(r) == req[r].pc # "done" /\ Created(req'[r])

\* C24: when a create request returns a record, the ai_response of the
\* record returned is the ai_response the table holds for that record at
\* that moment.
C24_ReturnedResponseIsStored ==
  [][\A r \in Requests :
       ReturnsRecord(r) =>
         /\ req'[r].body[1].id \in DOMAIN db'
         /\ req'[r].body[1].ai_response = db'[req'[r].body[1].id].ai_response]_vars

(***************************************************************************)
(* Create requests in progress at once and their records (Spec).           *)
(***************************************************************************)
\* the texts generate_ai_response can return for a message and a name,
\* whatever the environment, the constructors and the model call do
GeneratorOutputsFor(message, name) ==
  LET m == find_matching_faq(message)
      begun == {generate_after_match(m, Some(name), env, client_ok, agent_ok) :
                  env \in CreateEnvKeys, client_ok \in BOOLEAN, agent_ok \in BOOLEAN}
      ended == {c \in begun : c.pc = "returned"}
                 \cup {generate_resume(c, outcome) :
                         c \in {b \in begun : b.pc = "awaiting"},
                         outcome \in CreateOutcomes}
  IN  {c.response : c \in ended}

GeneratorOutputs ==
  [data \in {p \in Payloads :
               ~IsSome(validate_support_message_data(p.name, p.email, p.message))}
     |-> GeneratorOutputsFor(data.message, data.name)]

\* request r runs lines 74-91 in this step
Attaches(r) == req[r].pc = "generated" /\ req'[r].pc = "done"

\* C25: the attach-response write of a request leaves every other record as
\* it is and changes of its own record, the one holding the request's name,
\* email and message, nothing but ai_response, which becomes a text the
\* generator returns for that request's own message and name.
C25_AttachOnlyOwnResponse ==
  [][\A r \in Requests :
       Attaches(r) =>
         LET id == req[r].row_id
             data == req[r].message_data
         IN  /\ DOMAIN db' = DOMAIN db
             /\ \A i \in DOMAIN db \ {id} : db'[i] = db[i]
             /\ id \in DOMAIN db
             /\ db[id].name = data.name /\ db'[id].name = data.name
             /\ db[id].email = data.email /\ db'[id].email = data.email
             /\ db[id].message = data.message /\ db'[id].message = data.message
             /\ db'[id].ai_response # db[id].ai_response =>
                  /\ IsSome(db'[id].ai_response)
                  /\ db'[id].ai_response[1] \in GeneratorOutputs[data]]_vars

\* two requests under different names, one received while the other was
\* suspended in the model call, have both attached their response, each to
\* its own record
C25_Witness ==
  \E r \in Requests, o \in Requests :
    /\ r \in req[o].waiting_at_arrival
    /\ req[r].second_commit = "ok" /\ req[o].second_commit = "ok"
    /\ req[r].message_data.name # req[o].message_data.name
    /\ req[r].row_id # req[o].row_id
    /\ db[req[r].row_id].ai_response = Some(req[r].call.response)
    /\ db[req[o].row_id].ai_response = Some(req[o].call.response)
    /\ req[r].call.response # req[o].call.response

(***************************************************************************)
(* The stored records under create, update and delete (SpecCrud).          *)
(***************************************************************************)
\* the validation gate on a stored row
PassesGate(row) ==
  /\ ~Blank(row.name)
  /\ validate_email(row.email)
  /\ ~Blank(row.message)
  /\ Len(row.message) <= 10000

\* the value a field has once the update is merged into the row (Nothing
\* for null)
MergedField(row, update_data, key) ==
  IF key \in DOMAIN update_data THEN update_data[key] ELSE Some(row[key])

\* the update names one of name, email, message, and the merged name, email
\* and message would not pass the gate
MergedInvalid(row, update_data) ==
  /\ DOMAIN update_data \cap {"name", "email", "message"} # {}
  /\ \/ \E key \in {"name", "email", "message"} :
          MergedField(row, update_data, key) = Nothing
     \/ ~PassesGate([key \in {"name", "email", "message"} |->
                       MergedField(row, update_data, key)[1]])

\* an update operation runs in this step
Updates == req' = req /\ last_op'.called /\ last_op'.op = "update"

\* C23: every step leaves every stored record passing the validation gate,
\* and an update of an existing record whose merged name, email and message
\* would not pass it, a null field included, is rejected with 400 and
\* leaves the table as it was.
C23_StoredRecordsPassGate ==
  [][/\ \A id \in DOMAIN db' : PassesGate(db'[id])
     /\ (Updates /\ last_op'.message_id \in DOMAIN db
           /\ MergedInvalid(db[last_op'.message_id], last_op'.update_data))
          => (db' = db /\ last_op'.status = HTTP_400_BAD_REQUEST)]_vars

\* an update setting name explicitly to null has just been rejected for a
\* record that exists and has been updated before
C23_Witness ==
  /\ last_op.called /\ last_op.op = "update"
  /\ last_op.status = HTTP_400_BAD_REQUEST
  /\ "name" \in DOMAIN last_op.update_data
  /\ last_op.update_data["name"] = Nothing
  /\ last_op.message_id \in DOMAIN db
  /\ db[last_op.message_id].name # req["r1"].message_data.name

====
